---- MODULE Spec2Model ----
(***************************************************************************)
(* A model of nasa_iotd.py: the feed reader (getRssItems), the word wrap   *)
(* (reflowText) and the single pass of main() from argument parsing to the *)
(* exit status.                                                            *)
(*                                                                         *)
(* Strings are sequences of one-character strings, so that split, join and *)
(* strip are computed and not assumed.                                     *)
(***************************************************************************)
EXTENDS Integers, Sequences, FiniteSets, TLC

\* reflowText as a function under test: its arguments, what it returned,
\* and whether it has been called.
VARIABLES text, width, out, rpc

\* getRssItems as a function under test: the entries feedparser gives, the
\* count, what the call gave, and whether it has been called.
VARIABLES feed, count, parsed_items, qpc

\* main(): the parsed arguments, what the run finds around it, the position
\* in main, the locals, the files written, the log, the steps taken so far,
\* the exception that ended the run and the exit status (-1 while running).
VARIABLES args, env, pc, resolution, rss_items, idx, nasa_image, black_image,
          output_file, disk, log, events, raised, save_failed, exit_status

reflowVars == <<text, width, out, rpc>>
rssVars == <<feed, count, parsed_items, qpc>>
mainVars == <<args, env, pc, resolution, rss_items, idx, nasa_image, black_image,
              output_file, disk, log, events, raised, save_failed, exit_status>>
vars == <<reflowVars, rssVars, mainVars>>

\* None, for a value that is otherwise a list or a path; a path is held as
\* the sequence of its segments between slashes.
None == <<>>

\* No exception has been raised.
NoError == "no exception"

\* ------------------------------------------------------------------ bounds
MaxTextLen == 5
MaxEntries == 3
MaxCount == 3
MaxMainEntries == 2
MaxWidthSteps == 10

\* ------------------------------------------------------------ str helpers
IsSpace(c) == c \in {" ", "\n"}

RECURSIVE Concat(_)
\* ''.join(parts)
Concat(parts) ==
    IF parts = <<>> THEN <<>> ELSE Head(parts) \o Concat(Tail(parts))

RECURSIVE Join(_, _)
\* sep.join(parts)
Join(parts, sep) ==
    IF parts = <<>> THEN <<>>
    ELSE IF Len(parts) = 1 THEN Head(parts)
    ELSE Head(parts) \o <<sep>> \o Join(Tail(parts), sep)

RECURSIVE SplitOnAcc(_, _, _)
SplitOnAcc(s, sep, cur) ==
    IF s = <<>> THEN <<cur>>
    ELSE IF Head(s) = sep THEN <<cur>> \o SplitOnAcc(Tail(s), sep, <<>>)
    ELSE SplitOnAcc(Tail(s), sep, Append(cur, Head(s)))

\* s.split(sep): empty fields are kept
SplitOn(s, sep) == SplitOnAcc(s, sep, <<>>)

RECURSIVE SplitAcc(_, _)
SplitAcc(s, cur) ==
    IF s = <<>> THEN (IF cur = <<>> THEN <<>> ELSE <<cur>>)
    ELSE IF IsSpace(Head(s))
         THEN (IF cur = <<>> THEN <<>> ELSE <<cur>>) \o SplitAcc(Tail(s), <<>>)
         ELSE SplitAcc(Tail(s), Append(cur, Head(s)))

\* s.split(): runs of whitespace separate, no empty words
Split(s) == SplitAcc(s, <<>>)

RECURSIVE LStrip(_)
LStrip(s) == IF s # <<>> /\ IsSpace(Head(s)) THEN LStrip(Tail(s)) ELSE s

RECURSIVE RStrip(_)
RStrip(s) ==
    IF s # <<>> /\ IsSpace(s[Len(s)]) THEN RStrip(SubSeq(s, 1, Len(s) - 1)) ELSE s

\* s.strip()
Strip(s) == RStrip(LStrip(s))

\* ------------------------------------------------------------- reflowText
\* The advance of one glyph of the font, in pixels.
CharWidth(c) ==
    CASE c = "a" -> 10
      [] c = "W" -> 30
      [] c = " " -> 5
      [] OTHER -> 0

RECURSIVE getlength(_)
\* font.getlength(s): the advances of the glyphs of s added up
getlength(s) == IF s = <<>> THEN 0 ELSE CharWidth(Head(s)) + getlength(Tail(s))

Margin == 20

\* Budget with the margin forgotten
BudgetNoMargin(w) == w

\* width - 20, the widest a line may be rendered
Budget(w) == w - Margin

\* reflowStep without the line.append(word) that follows line.clear()
reflowStepDropsWord(st, word, w) ==
    LET appended == Append(st.line, word) IN
    IF getlength(Join(appended, " ")) > Budget(w)
    THEN [lines |-> Append(st.lines, Join(st.line, " ")), line |-> <<>>]
    ELSE [lines |-> st.lines, line |-> appended]

\* One iteration of the for loop: st.line is `line`, st.lines is `lines`.
reflowStep(st, word, w) ==
    LET appended == Append(st.line, word) IN
    IF getlength(Join(appended, " ")) > Budget(w)
    THEN \* line.pop(); lines.append(' '.join(line)); line.clear(); line.append(word)
         [lines |-> Append(st.lines, Join(st.line, " ")), line |-> <<word>>]
    ELSE [lines |-> st.lines, line |-> appended]

RECURSIVE reflowLoop(_, _, _)
reflowLoop(st, words, w) ==
    IF words = <<>> THEN st
    ELSE reflowLoop(reflowStep(st, Head(words), w), Tail(words), w)

\* The list `lines` when the function returns; <<t>> on the fast path.
reflowLines(t, w) ==
    IF getlength(t) <= Budget(w) THEN <<t>>
    ELSE LET st == reflowLoop([lines |-> <<>>, line |-> <<>>], Split(t), w)
         IN Append(st.lines, Join(st.line, " "))

reflowText(t, w) ==
    IF getlength(t) <= Budget(w) THEN t
    ELSE Join(reflowLines(t, w), "\n")

\* ------------------------------------------------------------ getRssItems
\* entries[:n]
Take(s, n) == SubSeq(s, 1, IF n < Len(s) THEN n ELSE Len(s))

\* s.splitlines(): a line break ending s opens no further line
splitlines(s) ==
    LET parts == SplitOn(s, "\n") IN
    IF parts[Len(parts)] = <<>> THEN SubSeq(parts, 1, Len(parts) - 1) ELSE parts

\* ' '.join([l.strip() for l in description.splitlines()])
Flatten(description) ==
    Join([i \in 1..Len(splitlines(description)) |->
            Strip(splitlines(description)[i])], " ")

Qualifies(entry) ==
    /\ Len(entry.enclosures) >= 1
    /\ entry.enclosures[1].type = "image/jpeg"

RECURSIVE SelectItems(_)
\* The body of the for loop, over the entries it is given.
SelectItems(entries) ==
    IF entries = <<>> THEN <<>>
    ELSE LET entry == Head(entries) IN
         IF Qualifies(entry)
         THEN <<[url |-> entry.enclosures[1].href,
                 size |-> entry.enclosures[1].length,
                 desc |-> Flatten(entry.description)]>> \o SelectItems(Tail(entries))
         ELSE SelectItems(Tail(entries))

\* An entry is a dict: entry.get('description') is None when it has no such
\* key, and None.splitlines() raises AttributeError.
RaisesOnDescription(entries) ==
    \E i \in 1..Len(entries) : "description" \notin DOMAIN entries[i]

getRssItems(rss, n) ==
    IF RaisesOnDescription(Take(rss, n))
    THEN [raised |-> "AttributeError:splitlines", items |-> <<>>]
    ELSE [raised |-> NoError, items |-> SelectItems(Take(rss, n))]

\* --------------------------------------------- reflowText under test
Alphabet == {"a", "W", " "}

Texts == UNION {[1..n -> Alphabet] : n \in 0..MaxTextLen}

\* image.width: below, at and above the margin
Widths == {Margin - 10} \cup {Margin + 5 * k : k \in 0..MaxWidthSteps}

InitMainIdle ==
    /\ args = <<>> /\ env = <<>> /\ pc = "idle" /\ resolution = <<>>
    /\ rss_items = <<>> /\ idx = 0 /\ nasa_image = <<>> /\ black_image = <<>>
    /\ output_file = None /\ disk = {} /\ log = <<>> /\ events = <<>>
    /\ raised = NoError /\ save_failed = FALSE /\ exit_status = -1

InitRssIdle ==
    /\ feed = <<>> /\ count = 0 /\ qpc = "idle"
    /\ parsed_items = [raised |-> NoError, items |-> <<>>]

InitReflowIdle ==
    /\ text = <<>> /\ width = 0 /\ out = <<>> /\ rpc = "idle"

InitReflow ==
    /\ text \in Texts
    /\ width \in Widths
    /\ out = <<>>
    /\ rpc = "call"
    /\ InitRssIdle
    /\ InitMainIdle

\* description = reflowText(text, image.width, desc_font)
CallReflowText ==
    /\ rpc = "call"
    /\ out' = reflowText(text, width)
    /\ rpc' = "returned"
    /\ UNCHANGED <<text, width, rssVars, mainVars>>

NextReflow == CallReflowText

SpecReflow == InitReflow /\ [][NextReflow]_vars

\* The lines of the returned string, and the words of each.
OutLines == SplitOn(out, "\n")

OutWords == Concat([i \in 1..Len(OutLines) |-> Split(OutLines[i])])

LineWithinBudgetOrLoneWideWord(line, w) ==
    \/ getlength(line) <= w - Margin
    \/ /\ Len(Split(line)) = 1
       /\ getlength(Split(line)[1]) > w - Margin

\* C5, as claimed: for every text and width, every emitted line is rendered no
\* wider than width - 20, except a line of one word that is itself wider.
C5_EveryLineWithinBudget ==
    rpc = "returned" =>
        \A i \in 1..Len(OutLines) : LineWithinBudgetOrLoneWideWord(OutLines[i], width)

\* C5, amended: the same for every width of at least 20 pixels, where the
\* budget width - 20 is not negative.
C5_EveryLineWithinNonNegativeBudget ==
    (rpc = "returned" /\ width >= Margin) =>
        \A i \in 1..Len(OutLines) : LineWithinBudgetOrLoneWideWord(OutLines[i], width)

\* A wrapped result with a line of several words and a line that is one
\* overflowing word.
C5_Witness ==
    /\ rpc = "returned" /\ width >= Margin
    /\ Len(OutLines) >= 2
    /\ \E i \in 1..Len(OutLines) :
           Len(Split(OutLines[i])) >= 2 /\ getlength(OutLines[i]) <= width - Margin
    /\ \E i \in 1..Len(OutLines) :
           Len(Split(OutLines[i])) = 1 /\ getlength(OutLines[i]) > width - Margin

\* C6: the words of the returned lines, in line order, are exactly the words
\* of the input text; none is dropped, duplicated or reordered.
C6_WordsPreserved ==
    rpc = "returned" => OutWords = Split(text)

\* A wrapped result of three lines or more, and hence three words or more.
C6_Witness ==
    /\ rpc = "returned"
    /\ getlength(text) > width - Margin
    /\ Len(OutLines) >= 3
    /\ Len(Split(text)) >= 3

\* C10, as claimed: for a text of at least one word no returned line is empty,
\* and there are no more lines than words.
C10_NoEmptyLine ==
    (rpc = "returned" /\ Split(text) # <<>>) =>
        /\ \A i \in 1..Len(OutLines) : Split(OutLines[i]) # <<>>
        /\ Len(OutLines) <= Len(Split(text))

\* --------------------------------------------- getRssItems under test
ImgName(i) ==
    CASE i = 1 -> "img1.jpg" [] i = 2 -> "img2.jpg" [] i = 3 -> "img3.jpg"
      [] i = 4 -> "img4.jpg" [] i = 5 -> "img5.jpg" [] OTHER -> "imgN.jpg"

\* An enclosure of the i-th entry of a feed; the URL is held as its segments
\* between slashes.
Enclosure(i, type) ==
    [href |-> <<"https:", "", "www.nasa.gov", ImgName(i)>>, type |-> type, length |-> i]

EnclosureKinds ==
    {<<>>, <<"image/jpeg">>, <<"image/png">>, <<"image/png", "image/jpeg">>}

\* A description of two lines with blanks around the line breaks.
Description == <<"a", " ", "\n", " ", "W", "\n">>

Entry(i, kind, described) ==
    LET enclosures == [j \in 1..Len(kind) |-> Enclosure(i, kind[j])] IN
    IF described
    THEN [enclosures |-> enclosures, description |-> Description]
    ELSE [enclosures |-> enclosures]

Feeds(maxLen, kinds, describeds) ==
    UNION {
        {[i \in 1..n |-> Entry(i, ks[i], ds[i])] :
            ks \in [1..n -> kinds], ds \in [1..n -> describeds]}
        : n \in 0..maxLen}

InitRss ==
    /\ feed \in Feeds(MaxEntries, EnclosureKinds, BOOLEAN)
    /\ count \in 0..MaxCount
    /\ parsed_items = [raised |-> NoError, items |-> <<>>]
    /\ qpc = "call"
    /\ InitReflowIdle
    /\ InitMainIdle

\* rss_items = getRssItems(rss, args.count), feedparser.parse having given feed
CallGetRssItems ==
    /\ qpc = "call"
    /\ parsed_items' = getRssItems(feed, count)
    /\ qpc' = "returned"
    /\ UNCHANGED <<feed, count, reflowVars, mainVars>>

NextRss == CallGetRssItems

SpecRss == InitRss /\ [][NextRss]_vars

\* C4, as claimed: getRssItems returns, in feed order, the first min(count, q)
\* qualifying entries of the whole feed, q being the number of qualifying
\* entries; entries that do not qualify do not reduce the number returned.
C4_FirstCountQualifying ==
    (qpc = "returned" /\ ~RaisesOnDescription(feed)) =>
        /\ parsed_items.raised = NoError
        /\ parsed_items.items = Take(SelectItems(feed), count)

\* ------------------------------------------------------------------ main
\* A value with its Python type: argparse hands --resolution over as strings
\* (the argument has no type=int), Xlib gives ints.
PyStr(n) == [type |-> "str", val |-> n]

PyInt(n) == [type |-> "int", val |-> n]

IsInts(size) == \A i \in 1..Len(size) : size[i].type = "int"

\* A PIL image: its size, what was pasted onto it and what was drawn on it.
Image(w, h) == [width |-> w, height |-> h, pasted |-> <<>>, drawn |-> <<>>]

\* Image.thumbnail(size): in place, never enlarging, keeping the aspect
\* ratio; the side that is computed is rounded down here and is at least 1.
thumbnail(image, size) ==
    LET x == size[1].val
        y == size[2].val
        atLeast1(n) == IF n < 1 THEN 1 ELSE n
    IN  IF x >= image.width /\ y >= image.height THEN image
        ELSE IF x * image.height >= y * image.width
        THEN [image EXCEPT !.width = atLeast1((y * image.width) \div image.height),
                           !.height = y]
        ELSE [image EXCEPT !.width = x,
                           !.height = atLeast1((x * image.height) \div image.width)]

\* os.path.basename(path) and url.rsplit('/', 1)[1]
basename(path) == path[Len(path)]

\* os.path.join(directory, name)
join(directory, name) == Append(directory, name)

\* writeImageToDisk(file_name, image); ok is whether image.save succeeds.
\* What it leaves: the files, the log, and whether a save has failed.
writeImageToDisk(file_name, image, ok) ==
    IF ok
    THEN [disk |-> {f \in disk : f.path # file_name} \cup {[path |-> file_name, image |-> image]},
          log |-> log,
          save_failed |-> save_failed]
    ELSE \* except OSError: logger.exception('Could not save image.')
         [disk |-> disk,
          log |-> Append(log, "Could not save image."),
          save_failed |-> TRUE]

\* renderDescription(text, image, font, font_size): the image with the matte
\* and the wrapped text drawn at the middle of its bottom edge.
renderDescription(t, image) ==
    [image EXCEPT !.drawn = Append(@,
        [text |-> reflowText(t, image.width),
         xy |-> <<image.width \div 2, image.height - 10>>,
         over_pasted |-> Len(image.pasted)])]

\* The process ends: sys.exit(status), a return from main, or an exception
\* nobody catches (Python then exits with status 1).
Exit(status) == pc' = "exited" /\ exit_status' = status

Uncaught(exception) == raised' = exception /\ Exit(1)

\* ---- what the run is given
Screens == {<<PyInt(64), PyInt(40)>>, <<PyInt(40), PyInt(64)>>}

ImageSizes == {<<32, 20>>, <<128, 80>>, <<64, 64>>}

MainEnclosureKinds == {<<"image/jpeg">>, <<"image/png">>}

ArgsSet ==
    [resolution : {None, <<PyStr(64), PyStr(40)>>},
     input_file : {None, <<"pics", "in.jpg">>},
     output_file : {None, <<"out", "o.jpg">>},
     directory : {None, <<"wall">>},
     count : 0..MaxCount]

EnvSet ==
    [display : {"ok", "DisplayError", "XauthError"},
     screen : Screens,
     PWD : {None, <<"cwd">>},
     entries : Feeds(MaxMainEntries, MainEnclosureKinds, BOOLEAN)]

Init ==
    /\ args \in ArgsSet
    /\ env \in EnvSet
    /\ pc = "resolution"
    /\ resolution = <<>>
    /\ rss_items = <<>>
    /\ idx = 0
    /\ nasa_image = Image(0, 0)
    /\ black_image = Image(0, 0)
    /\ output_file = None
    /\ disk = {}
    /\ log = <<>>
    /\ events = <<>>
    /\ raised = NoError
    /\ save_failed = FALSE
    /\ exit_status = -1
    /\ InitReflowIdle
    /\ InitRssIdle

\* getScreenResolution falling back to a fixed resolution, where the code
\* exits, when the display cannot be opened
getScreenResolutionNoExit(d) ==
    IF d = "ok"
    THEN [exit |-> FALSE, raised |-> NoError, value |-> env.screen, log |-> <<>>]
    ELSE [exit |-> FALSE, raised |-> NoError, value |-> <<PyInt(64), PyInt(40)>>,
          log |-> <<"If you are not running in X you must supply the --resolution flag.">>]

\* getScreenResolution(), d being what display.Display() does
getScreenResolution(d) ==
    IF d = "ok"
    THEN [exit |-> FALSE, raised |-> NoError, value |-> env.screen, log |-> <<>>]
    ELSE IF d = "DisplayError"
    THEN \* logger.error, logger.exception, sys.exit(1)
         [exit |-> TRUE, raised |-> NoError, value |-> <<>>,
          log |-> <<"If you are not running in X you must supply the --resolution flag.",
                    "Failed attempting to retrieve display information from X.">>]
    ELSE \* any other exception of Xlib is not caught
         [exit |-> TRUE, raised |-> d, value |-> <<>>, log |-> <<>>]

\* if args.resolution is None: ... else: resolution = tuple(args.resolution)
DetermineResolution ==
    /\ pc = "resolution"
    /\ IF args.resolution = None
       THEN LET r == getScreenResolution(env.display) IN
            /\ events' = Append(events, "display_query")
            /\ log' = log \o r.log
            /\ resolution' = r.value
            /\ raised' = r.raised
            /\ IF r.exit THEN Exit(1)
               ELSE pc' = "logging" /\ UNCHANGED exit_status
       ELSE /\ resolution' = args.resolution
            /\ pc' = "logging"
            /\ UNCHANGED <<events, log, raised, exit_status>>
    /\ UNCHANGED <<args, env, rss_items, idx, nasa_image, black_image, output_file,
                   disk, save_failed, reflowVars, rssVars>>

\* Setup logging; output_file = args.output_file
SetupLogging ==
    /\ pc = "logging"
    /\ output_file' = args.output_file
    /\ pc' = IF args.input_file # None THEN "input_open" ELSE "feed"
    /\ UNCHANGED <<args, env, resolution, rss_items, idx, nasa_image, black_image,
                   disk, log, events, raised, save_failed, exit_status,
                   reflowVars, rssVars>>

\* with open(args.input_file, 'rb') as f: read, Image.open, image.thumbnail
OpenInputFile ==
    /\ pc = "input_open"
    /\ \E readable \in BOOLEAN, size \in ImageSizes :
        IF ~readable
        THEN /\ Uncaught("FileNotFoundError:open")
             /\ UNCHANGED <<nasa_image, events>>
        ELSE IF ~IsInts(resolution)
        THEN /\ Uncaught("TypeError:thumbnail")
             /\ events' = Append(events, "read_input")
             /\ nasa_image' = Image(size[1], size[2])
        ELSE /\ nasa_image' = thumbnail(Image(size[1], size[2]), resolution)
             /\ events' = events \o <<"read_input", "resize">>
             /\ pc' = "input_output"
             /\ UNCHANGED <<raised, exit_status>>
    /\ UNCHANGED <<args, env, resolution, rss_items, idx, black_image, output_file,
                   disk, log, save_failed, reflowVars, rssVars>>

\* if output_file is None: output_file = os.path.join(args.directory, basename)
ResolveInputOutput ==
    /\ pc = "input_output"
    /\ IF output_file # None
       THEN pc' = "input_write" /\ UNCHANGED <<output_file, raised, exit_status>>
       ELSE IF args.directory = None
       THEN \* os.path.join(None, ...) raises TypeError
            Uncaught("TypeError:os.path.join") /\ UNCHANGED output_file
       ELSE /\ output_file' = join(args.directory, basename(args.input_file))
            /\ pc' = "input_write"
            /\ UNCHANGED <<raised, exit_status>>
    /\ UNCHANGED <<args, env, resolution, rss_items, idx, nasa_image, black_image,
                   disk, log, events, save_failed, reflowVars, rssVars>>

\* writeImageToDisk(output_file, image); return
WriteInputImage ==
    /\ pc = "input_write"
    /\ \E ok \in BOOLEAN :
        LET w == writeImageToDisk(output_file, nasa_image, ok) IN
        /\ disk' = w.disk
        /\ log' = w.log
        /\ save_failed' = w.save_failed
    /\ events' = Append(events, "write")
    /\ Exit(0)
    /\ UNCHANGED <<args, env, resolution, rss_items, idx, nasa_image, black_image,
                   output_file, raised, reflowVars, rssVars>>

\* rss_items = getRssItems(rss, args.count)
GetItems ==
    /\ pc = "feed"
    /\ LET r == getRssItems(env.entries, args.count) IN
        /\ events' = Append(events, "feed_parse")
        /\ rss_items' = r.items
        /\ IF r.raised # NoError
           THEN Uncaught(r.raised) /\ UNCHANGED idx
           ELSE idx' = 1 /\ pc' = "item" /\ UNCHANGED <<raised, exit_status>>
    /\ UNCHANGED <<args, env, resolution, nasa_image, black_image, output_file,
                   disk, log, save_failed, reflowVars, rssVars>>

\* for item in rss_items: the loop is over, main returns
EndOfItems ==
    /\ pc = "item"
    /\ idx > Len(rss_items)
    /\ Exit(0)
    /\ UNCHANGED <<args, env, resolution, rss_items, idx, nasa_image, black_image,
                   output_file, disk, log, events, raised, save_failed,
                   reflowVars, rssVars>>

\* image_data = getImage(item['url']); nasa_image = Image.open(image_data)
FetchImage ==
    /\ pc = "item"
    /\ idx <= Len(rss_items)
    /\ \E fetched \in BOOLEAN, size \in ImageSizes :
        IF ~fetched
        THEN /\ Uncaught("ConnectionError:requests.get")
             /\ UNCHANGED <<nasa_image, events>>
        ELSE /\ nasa_image' = Image(size[1], size[2])
             /\ events' = Append(events, "fetch")
             /\ pc' = "thumbnail"
             /\ UNCHANGED <<raised, exit_status>>
    /\ UNCHANGED <<args, env, resolution, rss_items, idx, black_image, output_file,
                   disk, log, save_failed, reflowVars, rssVars>>

\* nasa_image.thumbnail(resolution)
ThumbnailImage ==
    /\ pc = "thumbnail"
    /\ IF ~IsInts(resolution)
       THEN Uncaught("TypeError:thumbnail") /\ UNCHANGED <<nasa_image, events>>
       ELSE /\ nasa_image' = thumbnail(nasa_image, resolution)
            /\ events' = Append(events, "resize")
            /\ pc' = "canvas"
            /\ UNCHANGED <<raised, exit_status>>
    /\ UNCHANGED <<args, env, resolution, rss_items, idx, black_image, output_file,
                   disk, log, save_failed, reflowVars, rssVars>>

\* black_image = Image.new('RGB', resolution)
NewCanvas ==
    /\ pc = "canvas"
    /\ black_image' = Image(resolution[1].val, resolution[2].val)
    /\ events' = Append(events, "canvas")
    /\ pc' = "paste"
    /\ UNCHANGED <<args, env, resolution, rss_items, idx, nasa_image, output_file,
                   disk, log, raised, save_failed, exit_status, reflowVars, rssVars>>

\* nasa_origin = ...; black_image.paste(nasa_image, nasa_origin); image_data.close()
PasteImage ==
    /\ pc = "paste"
    /\ LET nasa_origin == <<(black_image.width - nasa_image.width) \div 2,
                            (black_image.height - nasa_image.height) \div 2>>
       IN black_image' = [black_image EXCEPT !.pasted =
                             Append(@, [origin |-> nasa_origin, image |-> nasa_image])]
    /\ events' = Append(events, "composite")
    /\ pc' = "render"
    /\ UNCHANGED <<args, env, resolution, rss_items, idx, nasa_image, output_file,
                   disk, log, raised, save_failed, exit_status, reflowVars, rssVars>>

\* description = item.get('desc'); renderDescription(description, black_image, ...)
\* (getRssItems gives every item a 'desc', so description is never None)
RenderDescription ==
    /\ pc = "render"
    /\ black_image' = renderDescription(rss_items[idx].desc, black_image)
    /\ events' = Append(events, "overlay")
    /\ pc' = "output"
    /\ UNCHANGED <<args, env, resolution, rss_items, idx, nasa_image, output_file,
                   disk, log, raised, save_failed, exit_status, reflowVars, rssVars>>

\* directory = next(d for d in [args.directory, os.environ['PWD']] if d is not None)
\* output_file = os.path.join(directory, nasa_image_filename)
ResolveFeedOutput ==
    /\ pc = "output"
    /\ IF env.PWD = None
       THEN \* the list is built first: os.environ['PWD'] raises KeyError
            Uncaught("KeyError:PWD") /\ UNCHANGED output_file
       ELSE LET directory == IF args.directory # None THEN args.directory ELSE env.PWD
                nasa_image_filename == basename(rss_items[idx].url)
            IN  /\ output_file' = join(directory, nasa_image_filename)
                /\ pc' = "write"
                /\ UNCHANGED <<raised, exit_status>>
    /\ UNCHANGED <<args, env, resolution, rss_items, idx, nasa_image, black_image,
                   disk, log, events, save_failed, reflowVars, rssVars>>

\* writeImageToDisk(output_file, black_image), and on to the next item
WriteFeedImage ==
    /\ pc = "write"
    /\ \E ok \in BOOLEAN :
        LET w == writeImageToDisk(output_file, black_image, ok) IN
        /\ disk' = w.disk
        /\ log' = w.log
        /\ save_failed' = w.save_failed
    /\ events' = Append(events, "write")
    /\ idx' = idx + 1
    /\ pc' = "item"
    /\ UNCHANGED <<args, env, resolution, rss_items, nasa_image, black_image,
                   output_file, raised, exit_status, reflowVars, rssVars>>

Next ==
    \/ DetermineResolution
    \/ SetupLogging
    \/ OpenInputFile
    \/ ResolveInputOutput
    \/ WriteInputImage
    \/ GetItems
    \/ EndOfItems
    \/ FetchImage
    \/ ThumbnailImage
    \/ NewCanvas
    \/ PasteImage
    \/ RenderDescription
    \/ ResolveFeedOutput
    \/ WriteFeedImage

Spec == Init /\ [][Next]_vars

\* ------------------------------------------------------- claims on main
Events == {events[i] : i \in 1..Len(events)}

\* C1, as claimed: a run in which the save of the image failed never ends
\* with exit status 0.
C1_FailedWriteExitsNonZero ==
    (pc = "exited" /\ save_failed) => exit_status # 0

\* C2, as claimed: with -o/--output-file given, every image the run writes is
\* written to exactly that path.
C2_OutputFileHonoured ==
    args.output_file # None => \A f \in disk : f.path = args.output_file

\* C3, as claimed: without -d and -o (and with $PWD naming the working
\* directory) no run fails for want of a directory, and what it writes it
\* writes into the working directory.
C3_DirectoryDefaultsToCwd ==
    (args.directory = None /\ args.output_file = None /\ env.PWD # None) =>
        /\ raised # "TypeError:os.path.join"
        /\ \A f \in disk : SubSeq(f.path, 1, Len(f.path) - 1) = env.PWD

\* C7, as claimed: with --resolution WIDTH HEIGHT given the display is never
\* queried, the resize and the canvas succeed with that target, and a feed
\* run writes images of exactly WIDTH x HEIGHT.
C7_ResolutionVerbatim ==
    args.resolution # None =>
        /\ "display_query" \notin Events
        /\ raised # "TypeError:thumbnail"
        /\ \A f \in disk :
               args.input_file = None =>
                   /\ f.image.width = args.resolution[1].val
                   /\ f.image.height = args.resolution[2].val

\* C8: without --resolution, once the display query has failed the process
\* has exited with a non-zero status, and nothing but the query has happened:
\* no feed parse, no download, no read of the input file, no write.
C8_DisplayFailureWritesNothing ==
    (args.resolution = None /\ env.display # "ok" /\ pc # "resolution") =>
        /\ pc = "exited"
        /\ exit_status # 0
        /\ disk = {}
        /\ events = <<"display_query">>

\* The display could not be opened, and the run has ended on the message.
C8_Witness ==
    /\ args.resolution = None
    /\ env.display = "DisplayError"
    /\ pc = "exited"
    /\ exit_status = 1
    /\ log # <<>>

\* C9, as claimed: the description is drawn before the image is pasted onto
\* the canvas: nothing is ever drawn onto the canvas, and the overlay step
\* never follows the composite step.
C9_OverlayBeforeComposite ==
    /\ black_image.drawn = <<>>
    /\ \A i \in 1..Len(events) - 1 :
           ~(events[i] = "composite" /\ events[i + 1] = "overlay")

====
